---- MODULE Spec2Model ----
(***************************************************************************)
(* Target-list preprocessing of src/backend/optimizer/prep/preptlist.c:    *)
(* preprocess_targetlist, expand_targetlist, process_matched_tle and       *)
(* build_column_default, as a state machine over one call.                 *)
(*                                                                         *)
(* Pointers are sequences: NULL is the empty sequence and a pointer to a   *)
(* node n is <<n>>.  Target entries live in `heap` and are referred to by  *)
(* their index, so that sharing and in-place modification are visible.     *)
(***************************************************************************)
EXTENDS Integers, Sequences, FiniteSets, TLC

\* ------------------------------------------------------------------ bounds
MaxSrc == 3
MaxAttrs == 2

\* --------------------------------------------------------------- constants
CMD_SELECT == "SELECT"
CMD_INSERT == "INSERT"
CMD_UPDATE == "UPDATE"
CMD_DELETE == "DELETE"
INT4OID == "int4"
TEXTOID == "text"
TIDOID == "tid"
SelfItemPointerAttributeNumber == -1
SizeofOid == 4
NULL == <<>>

\* ------------------------------------------------------------------- nodes
NodeBase ==
    [tag |-> "Node", type |-> "none", typmod |-> -1, varno |-> 0,
     varattno |-> 0, constlen |-> 0, constvalue |-> 0, constisnull |-> FALSE,
     constbyval |-> FALSE, refelemtype |-> "none", refindex |-> 0,
     refexpr |-> NULL, refassgnexpr |-> NULL, arg |-> NULL]

makeVar(varno, varattno, vartype, vartypmod, varlevelsup) ==
    [NodeBase EXCEPT !.tag = "Var", !.varno = varno, !.varattno = varattno,
                     !.type = vartype, !.typmod = vartypmod]

makeConst(consttype, constlen, constvalue, constisnull, constbyval, constisset, constiscast) ==
    [NodeBase EXCEPT !.tag = "Const", !.type = consttype,
                     !.constlen = constlen, !.constvalue = constvalue,
                     !.constisnull = constisnull, !.constbyval = constbyval]

makeArrayRef(refelemtype, refindex, refexpr, refassgnexpr) ==
    [NodeBase EXCEPT !.tag = "ArrayRef", !.type = refelemtype,
                     !.refelemtype = refelemtype, !.refindex = refindex,
                     !.refexpr = refexpr, !.refassgnexpr = refassgnexpr]

IsA(ptr, tag) == ptr[1].tag = tag

equal(a, b) == a = b

makeResdom(resno, restype, restypmod, resname, resjunk) ==
    [resno |-> resno, restype |-> restype, restypmod |-> restypmod,
     resname |-> resname, resjunk |-> resjunk]

makeTargetEntry(resdom, expr) ==
    [resno |-> resdom.resno, restype |-> resdom.restype,
     restypmod |-> resdom.restypmod, resname |-> resdom.resname,
     resjunk |-> resdom.resjunk, expr |-> expr]

\* The Resdom part of a target entry (copyObject of it is a copy by value).
ResdomOf(tle) ==
    makeResdom(tle.resno, tle.restype, tle.restypmod, tle.resname, tle.resjunk)

\* ----------------------------------------------------------------- catalog
\* get_typlenbyval: pg_type.typlen and pg_type.typbyval of a type.
get_typlenbyval(typid) ==
    CASE typid = INT4OID -> [typlen |-> 4, typbyval |-> TRUE]
      [] typid = TEXTOID -> [typlen |-> -1, typbyval |-> FALSE]
      [] OTHER -> [typlen |-> 6, typbyval |-> FALSE]

\* get_typdefault: the type-level default as a Const, NULL when there is none.
get_typdefault(typid, typmod) ==
    IF typid = TEXTOID
    THEN <<makeConst(TEXTOID, -1, 7, FALSE, FALSE, FALSE, FALSE)>>
    ELSE NULL

getBaseType(typid) == typid

exprType(expr) == expr[1].type

exprTypmod(expr) == expr[1].typmod

can_coerce_type(from, to) == from = to \/ (from = INT4OID /\ to = TEXTOID)

\* CoerceTargetExpr: the expression converted to the target type, NULL when no
\* conversion exists.
CoerceTargetExpr(pstate, expr, type_id, attrtype, attrtypmod) ==
    IF can_coerce_type(type_id, attrtype)
    THEN <<[NodeBase EXCEPT !.tag = "Coerce", !.type = attrtype, !.arg = expr]>>
    ELSE NULL

\* coerce_type_typmod: a length coercion is applied when the column has a
\* type modifier the expression does not already carry.
coerce_type_typmod(pstate, node, targetTypeId, atttypmod) ==
    IF atttypmod < 0 \/ atttypmod = exprTypmod(node)
    THEN node
    ELSE <<[NodeBase EXCEPT !.tag = "LengthCoerce", !.type = targetTypeId,
                            !.typmod = atttypmod, !.arg = node]>>

stringToNode(adbin) == <<adbin>>

\* The range table of the query: entry 1 is a plain relation, entry 2 a
\* subquery.
range_table ==
    <<[relid |-> 1, subquery |-> NULL],
      [relid |-> 0, subquery |-> <<"Query">>]>>

rt_fetch(rangetable_index, rangetable) == rangetable[rangetable_index]

InvalidOid == 0

\* ------------------------------------------------------------------ inputs
\* Source entries as the parser builds them: a whole-column assignment of a
\* constant or of an array element fetch, an array element assignment whose
\* base is the column (UPDATE) or no source array (INSERT), and junk entries.
\* The subscript and the assigned value of the i-th source entry are i.
SrcExpr(kind, i) ==
    LET val == <<makeConst(INT4OID, 4, i, FALSE, TRUE, FALSE, FALSE)>>
        col == <<makeVar(1, 1, INT4OID, -1, 0)>>
    IN CASE kind = "plain" -> val
         [] kind = "fetch" -> <<makeArrayRef(INT4OID, i, col, NULL)>>
         [] kind = "asgn" -> <<makeArrayRef(INT4OID, i, NULL, val)>>
         [] kind = "asgnvar" -> <<makeArrayRef(INT4OID, i, col, val)>>
         [] kind = "asgntext" -> <<makeArrayRef(TEXTOID, i, NULL, val)>>
         [] OTHER -> <<makeVar(1, 2, INT4OID, -1, 0)>>

SrcPool ==
    { [resno |-> 1, resname |-> "a", resjunk |-> FALSE, kind |-> "plain"],
      [resno |-> 1, resname |-> "a", resjunk |-> FALSE, kind |-> "fetch"],
      [resno |-> 2, resname |-> "a", resjunk |-> FALSE, kind |-> "asgn"],
      [resno |-> 1, resname |-> "a", resjunk |-> FALSE, kind |-> "asgnvar"],
      [resno |-> 1, resname |-> "a", resjunk |-> FALSE, kind |-> "asgntext"],
      [resno |-> 2, resname |-> "b", resjunk |-> FALSE, kind |-> "plain"],
      [resno |-> 3, resname |-> "a", resjunk |-> TRUE, kind |-> "junk"],
      [resno |-> 1, resname |-> "k", resjunk |-> TRUE, kind |-> "junk"] }

SrcEntry(t, i) ==
    makeTargetEntry(makeResdom(t.resno, INT4OID, -1, t.resname, t.resjunk),
                    SrcExpr(t.kind, i))

SrcLists ==
    { [i \in DOMAIN f |-> SrcEntry(f[i], i)] :
        f \in UNION { [1..n -> SrcPool] : n \in 0..MaxSrc } }

\* Attribute descriptors (Form_pg_attribute) of the relations in the catalog,
\* each with its pg_attrdef expression if it has one.  dropped stands for
\* COLUMN_IS_DROPPED, which only a build with _DROP_COLUMN_HACK__ tests.
Att(attname, atttypid, atttypmod, attisset, dropped, adbin) ==
    [attname |-> attname, atttypid |-> atttypid, atttypmod |-> atttypmod,
     attisset |-> attisset, dropped |-> dropped, adbin |-> adbin]

Literal(typid, value) ==
    <<makeConst(typid, get_typlenbyval(typid).typlen, value, FALSE,
                get_typlenbyval(typid).typbyval, FALSE, FALSE)>>

AttrPool ==
    { Att("a", INT4OID, -1, FALSE, FALSE, NULL),
      Att("a", INT4OID, -1, FALSE, TRUE, NULL),
      Att("b", TEXTOID, 8, FALSE, FALSE, NULL),
      Att("b", TEXTOID, -1, FALSE, FALSE, Literal(INT4OID, 5)),
      Att("b", INT4OID, -1, FALSE, FALSE, Literal(TEXTOID, 9)),
      Att("c", INT4OID, -1, FALSE, FALSE, Literal(INT4OID, 5)),
      Att("c", INT4OID, -1, TRUE, FALSE, NULL) }

\* The tuple descriptors: attribute names are unique within a relation.
Schemas ==
    { s \in UNION { [1..n -> AttrPool] : n \in 0..MaxAttrs } :
        \A i, j \in DOMAIN s : i # j => s[i].attname # s[j].attname }

\* rd_att->constr->defval: one AttrDefault per column that has a default.
RECURSIVE AttrDefaults(_, _)
AttrDefaults(s, i) ==
    IF i > Len(s) THEN <<>>
    ELSE (IF s[i].adbin = NULL THEN <<>>
          ELSE <<[adnum |-> i, adbin |-> s[i].adbin[1]]>>)
         \o AttrDefaults(s, i + 1)

Relation(s) == [attrs |-> s, defval |-> AttrDefaults(s, 1)]

RelationGetNumberOfAttributes(r) == Len(r.attrs)

COLUMN_IS_DROPPED(att_tup) == att_tup.dropped

\* What the uninitialised locals typlen and typbyval of build_column_default
\* may hold when they are read before get_typlenbyval sets them.
UninitTyplen == {-1, 4}
UninitTypbyval == BOOLEAN

Commands == {CMD_SELECT, CMD_INSERT, CMD_UPDATE, CMD_DELETE}

\* ------------------------------------------------------------------- state
VARIABLES
    command_type,      \* argument of preprocess_targetlist
    result_relation,   \* argument: range table index, 0 when there is none
    parse_tlist,       \* the entries of the caller's list as they were passed
    heap,              \* every TargetEntry allocated so far, by address
    lists,             \* the List objects: the caller's, new_tlist, listCopy's
    tlist,             \* the list the local variable tlist points to
    rel,               \* the relcache entry returned by heap_open
    heldLocks,         \* AccessShareLock holds on the relation
    nOpen,             \* calls of heap_open so far
    nClose,            \* calls of heap_close so far
    tlistentry_used,   \* expand_targetlist's map of transferred entries
    attrno,            \* expand_targetlist's attribute counter
    consumed,          \* per source entry, where it was transferred to
    pc,                \* position in preprocess_targetlist
    err                \* the elog(ERROR) that ended the call, if any

vars ==
    <<command_type, result_relation, parse_tlist, heap, lists, tlist, rel,
      heldLocks, nOpen, nClose, tlistentry_used, attrno, consumed, pc, err>>

Init ==
    /\ command_type \in Commands
    /\ result_relation \in (IF command_type = CMD_SELECT THEN {0} ELSE {1, 2})
    /\ parse_tlist \in SrcLists
    /\ heap = parse_tlist
    /\ lists = [orig |-> [i \in 1..Len(parse_tlist) |-> i],
                new |-> <<>>, copy |-> <<>>]
    /\ tlist = "orig"
    /\ rel = Relation(<<>>)
    /\ heldLocks = 0
    /\ nOpen = 0
    /\ nClose = 0
    /\ tlistentry_used = <<>>
    /\ attrno = 0
    /\ consumed = [i \in 1..Len(parse_tlist) |-> <<>>]
    /\ pc = "start"
    /\ err = "none"

\* elog(ERROR, ...): control leaves preprocess_targetlist by longjmp.
elog(message) ==
    /\ pc' = "error"
    /\ err' = message

\* ------------------------------------------------- process_matched_tle
\* The bottom array object of a nest of array assignments.
RECURSIVE priorbottom(_)
priorbottom(p) ==
    IF p # NULL /\ IsA(p, "ArrayRef") /\ p[1].refassgnexpr # NULL
    THEN priorbottom(p[1].refexpr)
    ELSE p

\* Mutant of not_array_assignments: only the new assignment is examined.
not_array_assignments_src_only(src_expr, prior_expr) ==
    \/ src_expr = NULL
    \/ ~IsA(src_expr, "ArrayRef")
    \/ src_expr[1].refassgnexpr = NULL

\* TRUE when the two assignments to one attribute cannot be merged: one of
\* them is not an array assignment, or their element types differ.
not_array_assignments(src_expr, prior_expr) ==
    \/ src_expr = NULL
    \/ ~IsA(src_expr, "ArrayRef")
    \/ src_expr[1].refassgnexpr = NULL
    \/ prior_expr = NULL
    \/ ~IsA(prior_expr, "ArrayRef")
    \/ prior_expr[1].refassgnexpr = NULL
    \/ src_expr[1].refelemtype # prior_expr[1].refelemtype

\* Mutant of first_assignment: the source entry is handed on with the resno
\* it came with.
first_assignment_keeps_resno(h, src_tle, attno) ==
    [heap |-> h, tle |-> src_tle, err |-> FALSE]

\* The first assignment to the attribute: the entry itself when its resno is
\* right, else a new entry around a renumbered copy of its Resdom.
first_assignment(h, src_tle, attno) ==
    IF h[src_tle].resno = attno
    THEN [heap |-> h, tle |-> src_tle, err |-> FALSE]
    ELSE [heap |-> Append(h, makeTargetEntry(
                                [ResdomOf(h[src_tle]) EXCEPT !.resno = attno],
                                h[src_tle].expr)),
          tle |-> Len(h) + 1, err |-> FALSE]

\* Mutant of nest_assignment: the new ArrayRef is placed around the base of
\* the prior expression, not around the prior expression.
nest_assignment_around_base(src_expr, prior_expr) ==
    <<[src_expr[1] EXCEPT !.refexpr = prior_expr[1].refexpr]>>

\* The new ArrayRef: a copy of the source's, placed around the prior expression.
nest_assignment(src_expr, prior_expr) ==
    <<[src_expr[1] EXCEPT !.refexpr = prior_expr]>>

process_matched_tle(h, src_tle, prior_tle, attno) ==
    IF prior_tle = 0
    THEN first_assignment(h, src_tle, attno)
    ELSE LET src_expr == h[src_tle].expr
             prior_expr == h[prior_tle].expr
         IN IF not_array_assignments(src_expr, prior_expr)
            THEN [heap |-> h, tle |-> 0, err |-> TRUE]
            ELSE IF ~equal(priorbottom(prior_expr[1].refexpr),
                           src_expr[1].refexpr)
            THEN [heap |-> h, tle |-> 0, err |-> TRUE]
            ELSE [heap |-> Append(h, makeTargetEntry(
                                [ResdomOf(h[src_tle]) EXCEPT !.resno = attno],
                                nest_assignment(src_expr, prior_expr))),
                  tle |-> Len(h) + 1, err |-> FALSE]

\* --------------------------------------------------- build_column_default
\* while (--ndef >= 0) if (attrno == defval[ndef].adnum): the last default
\* stored for the column, 0 when there is none.
RECURSIVE find_defval(_, _, _)
find_defval(defval, ndef, attno) ==
    IF ndef < 1 THEN 0
    ELSE IF defval[ndef].adnum = attno THEN ndef
    ELSE find_defval(defval, ndef - 1, attno)

\* The column's own default expression, coerced to the column type.
column_default(att_tup, adbin) ==
    LET expr == stringToNode(adbin)
        type_id == exprType(expr)
        coerced == IF type_id # att_tup.atttypid
                   THEN CoerceTargetExpr(NULL, expr, type_id,
                                         getBaseType(att_tup.atttypid),
                                         att_tup.atttypmod)
                   ELSE expr
    IN IF coerced = NULL
       THEN [err |-> "DefaultTypeMismatch", expr |-> NULL]
       ELSE [err |-> "none",
             expr |-> coerce_type_typmod(NULL, coerced, att_tup.atttypid,
                                         att_tup.atttypmod)]

\* No per-column default: the default of the type, or a NULL constant.  typlen
\* and typbyval are the locals as they are when makeConst reads them.
type_default(att_tup, typlen, typbyval) ==
    IF att_tup.attisset
    THEN <<makeConst(att_tup.atttypid, SizeofOid, 0, TRUE, TRUE, FALSE, FALSE)>>
    ELSE LET expr == IF COLUMN_IS_DROPPED(att_tup)
                     THEN <<makeConst(att_tup.atttypid, typlen, 0, TRUE,
                                      typbyval, FALSE, FALSE)>>
                     ELSE get_typdefault(att_tup.atttypid, att_tup.atttypmod)
         IN IF expr = NULL
            THEN <<makeConst(att_tup.atttypid, typlen, 0, TRUE, typbyval,
                             FALSE, FALSE)>>
            ELSE expr

build_column_default(r, attno, typlen, typbyval) ==
    LET att_tup == r.attrs[attno]
        ndef == find_defval(r.defval, Len(r.defval), attno)
    IN IF ndef # 0
       THEN column_default(att_tup, r.defval[ndef].adbin)
       ELSE [err |-> "none",
             expr |-> coerce_type_typmod(NULL,
                                         type_default(att_tup, typlen, typbyval),
                                         att_tup.atttypid, att_tup.atttypmod)]

\* ------------------------------------------------------ expand_targetlist
makeNullConst(typid) ==
    makeConst(typid, get_typlenbyval(typid).typlen, 0, TRUE,
              get_typlenbyval(typid).typbyval, FALSE, FALSE)

\* An entry of the old list is a candidate for the attribute.
tle_matches(used, resdom, attrname) ==
    ~used /\ ~resdom.resjunk /\ resdom.resname = attrname

\* The inner foreach: every match is handed to process_matched_tle and marked.
RECURSIVE foreach_match(_, _, _, _, _)
foreach_match(L, i, st, attno, attrname) ==
    IF i > Len(L) \/ st.err THEN st
    ELSE IF tle_matches(st.used[i], st.heap[L[i]], attrname)
    THEN LET r == process_matched_tle(st.heap, L[i], st.new_tle, attno)
         IN foreach_match(L, i + 1,
                [heap |-> r.heap,
                 used |-> IF r.err THEN st.used
                          ELSE [st.used EXCEPT ![i] = TRUE],
                 new_tle |-> r.tle,
                 consumed |-> IF r.err THEN st.consumed
                              ELSE [st.consumed EXCEPT ![i] = Append(@, attno)],
                 err |-> r.err],
                attno, attrname)
    ELSE foreach_match(L, i + 1, st, attno, attrname)

\* Mutant of new_expr: the column default is used for an UPDATE too.
new_expr_default_always(cmd, r, attno, varno, typlen, typbyval) ==
    build_column_default(r, attno, typlen, typbyval)

\* The expression made for an attribute no entry assigns to.
new_expr(cmd, r, attno, varno, typlen, typbyval) ==
    LET att_tup == r.attrs[attno]
    IN CASE cmd = CMD_INSERT -> build_column_default(r, attno, typlen, typbyval)
         [] cmd = CMD_UPDATE ->
              [err |-> "none",
               expr |-> IF COLUMN_IS_DROPPED(att_tup)
                        THEN <<makeNullConst(att_tup.atttypid)>>
                        ELSE <<makeVar(varno, attno, att_tup.atttypid,
                                       att_tup.atttypmod, 0)>>]
         [] OTHER -> [err |-> "UnsupportedCommandKind", expr |-> NULL]

\* The entry made for an attribute no entry assigns to.
new_tle(att_tup, attno, expr) ==
    makeTargetEntry(makeResdom(attno, att_tup.atttypid, att_tup.atttypmod,
                               att_tup.attname, FALSE),
                    expr)

\* Mutant of junk_tle: the entry is handed on with the resno it came with.
junk_tle_keeps_resno(h, old_tle, attno) == [heap |-> h, tle |-> old_tle]

\* An entry left over after the attribute scan, as it goes to the new list.
junk_tle(h, old_tle, attno) ==
    IF h[old_tle].resno # attno
    THEN [heap |-> Append(h, makeTargetEntry(
                                [ResdomOf(h[old_tle]) EXCEPT !.resno = attno],
                                h[old_tle].expr)),
          tle |-> Len(h) + 1]
    ELSE [heap |-> h, tle |-> old_tle]

\* Mutant of foreach_junk: an unprocessed entry that is not junk is passed
\* over without an error.
RECURSIVE foreach_junk_silent(_, _, _, _)
foreach_junk_silent(L, i, used, st) ==
    IF i > Len(L) THEN st
    ELSE IF ~used[i] /\ st.heap[L[i]].resjunk
    THEN LET r == IF st.heap[L[i]].resno # st.attrno
                  THEN [heap |-> Append(st.heap,
                                        [st.heap[L[i]] EXCEPT
                                           !.resno = st.attrno]),
                        tle |-> Len(st.heap) + 1]
                  ELSE [heap |-> st.heap, tle |-> L[i]]
         IN foreach_junk_silent(L, i + 1, used,
                [heap |-> r.heap,
                 new_tlist |-> Append(st.new_tlist, r.tle),
                 attrno |-> st.attrno + 1,
                 consumed |-> [st.consumed EXCEPT ![i] = Append(@, 0)],
                 err |-> FALSE])
    ELSE foreach_junk_silent(L, i + 1, used, st)

\* The second foreach: the unprocessed entries, which must be junk.
RECURSIVE foreach_junk(_, _, _, _)
foreach_junk(L, i, used, st) ==
    IF i > Len(L) \/ st.err THEN st
    ELSE IF ~used[i]
    THEN IF ~st.heap[L[i]].resjunk
         THEN [st EXCEPT !.err = TRUE]
         ELSE LET r == junk_tle(st.heap, L[i], st.attrno)
              IN foreach_junk(L, i + 1, used,
                    [heap |-> r.heap,
                     new_tlist |-> Append(st.new_tlist, r.tle),
                     attrno |-> st.attrno + 1,
                     consumed |-> [st.consumed EXCEPT ![i] = Append(@, 0)],
                     err |-> FALSE])
    ELSE foreach_junk(L, i + 1, used, st)

\* ------------------------------------------------- preprocess_targetlist
\* lappend: destructive on a non-empty list, a new list for NIL.
lappend(ls, l, datum) ==
    IF ls[l] = <<>> /\ l = "orig"
    THEN [lists |-> [ls EXCEPT !.copy = <<datum>>], list |-> "copy"]
    ELSE [lists |-> [ls EXCEPT ![l] = Append(@, datum)], list |-> l]

listCopy(ls, l) == [lists |-> [ls EXCEPT !.copy = ls[l]], list |-> "copy"]

\* Mutant of ctid_list: the ctid entry is appended to the list as passed.
ctid_list_no_copy(cmd, ls, l) == [lists |-> ls, list |-> l]

\* The list the ctid entry is appended to.
ctid_list(cmd, ls, l) ==
    IF cmd = CMD_DELETE THEN listCopy(ls, l) ELSE [lists |-> ls, list |-> l]

\* Mutant of ctid_tle: the resno is the length of the list before the append.
ctid_tle_at_length(len, varno) ==
    makeTargetEntry(makeResdom(len, TIDOID, -1, "ctid", TRUE),
                    <<makeVar(varno, SelfItemPointerAttributeNumber, TIDOID,
                              -1, 0)>>)

\* The junk entry holding the CTID attribute of the result relation.
ctid_tle(len, varno) ==
    makeTargetEntry(makeResdom(len + 1, TIDOID, -1, "ctid", TRUE),
                    <<makeVar(varno, SelfItemPointerAttributeNumber, TIDOID,
                              -1, 0)>>)

\* Where preprocess_targetlist goes on after the expansion step.
after_expand(cmd) ==
    IF cmd \in {CMD_UPDATE, CMD_DELETE} THEN "ctid" ELSE "return"

\* The sanity check on the result relation, and the dispatch on command_type.
CheckResultRelation ==
    /\ pc = "start"
    /\ IF /\ result_relation # 0
          /\ \/ rt_fetch(result_relation, range_table).subquery # NULL
             \/ rt_fetch(result_relation, range_table).relid = InvalidOid
       THEN elog("ResultRelationInvalid")
       ELSE /\ pc' = IF command_type \in {CMD_INSERT, CMD_UPDATE}
                     THEN "expand"
                     ELSE after_expand(command_type)
            /\ err' = err
    /\ UNCHANGED <<command_type, result_relation, parse_tlist, heap, lists,
                   tlist, rel, heldLocks, nOpen, nClose, tlistentry_used,
                   attrno, consumed>>

\* expand_targetlist up to its attribute loop: the used map is cleared and the
\* relation is opened with AccessShareLock.
HeapOpen ==
    /\ pc = "expand"
    /\ \E s \in Schemas : rel' = Relation(s)
    /\ heldLocks' = heldLocks + 1
    /\ nOpen' = nOpen + 1
    /\ tlistentry_used' = [i \in 1..Len(lists[tlist]) |-> FALSE]
    /\ lists' = [lists EXCEPT !.new = <<>>]
    /\ attrno' = 1
    /\ pc' = "attrs"
    /\ UNCHANGED <<command_type, result_relation, parse_tlist, heap, tlist,
                   nClose, consumed, err>>

\* One iteration of the attribute loop.
ExpandAttribute ==
    /\ pc = "attrs"
    /\ attrno <= RelationGetNumberOfAttributes(rel)
    /\ LET att_tup == rel.attrs[attrno]
           m == foreach_match(lists[tlist], 1,
                              [heap |-> heap, used |-> tlistentry_used,
                               new_tle |-> 0, consumed |-> consumed,
                               err |-> FALSE],
                              attrno, att_tup.attname)
       IN IF m.err
          THEN /\ elog("MultipleAssignmentConflict")
               /\ heap' = m.heap
               /\ tlistentry_used' = m.used
               /\ consumed' = m.consumed
               /\ UNCHANGED <<lists, attrno>>
          ELSE IF m.new_tle # 0
          THEN /\ heap' = m.heap
               /\ tlistentry_used' = m.used
               /\ consumed' = m.consumed
               /\ lists' = [lists EXCEPT !.new = Append(@, m.new_tle)]
               /\ attrno' = attrno + 1
               /\ UNCHANGED <<pc, err>>
          ELSE \E typlen \in UninitTyplen, typbyval \in UninitTypbyval :
                 LET e == new_expr(command_type, rel, attrno, result_relation,
                                   typlen, typbyval)
                 IN IF e.err # "none"
                    THEN /\ elog(e.err)
                         /\ UNCHANGED <<heap, tlistentry_used, consumed,
                                        lists, attrno>>
                    ELSE /\ heap' = Append(heap,
                                           new_tle(att_tup, attrno, e.expr))
                         /\ lists' = [lists EXCEPT
                                        !.new = Append(@, Len(heap) + 1)]
                         /\ attrno' = attrno + 1
                         /\ UNCHANGED <<tlistentry_used, consumed, pc, err>>
    /\ UNCHANGED <<command_type, result_relation, parse_tlist, tlist, rel,
                   heldLocks, nOpen, nClose>>

\* The loop over the unprocessed entries of the old list.
CopyJunk ==
    /\ pc = "attrs"
    /\ attrno > RelationGetNumberOfAttributes(rel)
    /\ LET j == foreach_junk(lists[tlist], 1, tlistentry_used,
                             [heap |-> heap, new_tlist |-> lists.new,
                              attrno |-> attrno, consumed |-> consumed,
                              err |-> FALSE])
       IN IF j.err
          THEN /\ elog("UnexpectedJunkAssignment")
               /\ UNCHANGED <<heap, lists, attrno, consumed>>
          ELSE /\ heap' = j.heap
               /\ lists' = [lists EXCEPT !.new = j.new_tlist]
               /\ attrno' = j.attrno
               /\ consumed' = j.consumed
               /\ pc' = "close"
               /\ err' = err
    /\ UNCHANGED <<command_type, result_relation, parse_tlist, tlist, rel,
                   heldLocks, nOpen, nClose, tlistentry_used>>

\* Mutant of HeapClose: new_tlist is returned without heap_close.
HeapClose_keeps_lock ==
    /\ pc = "close"
    /\ tlist' = "new"
    /\ pc' = after_expand(command_type)
    /\ UNCHANGED <<command_type, result_relation, parse_tlist, heap, lists,
                   rel, heldLocks, nOpen, nClose, tlistentry_used, attrno,
                   consumed, err>>

\* heap_close, and the return of new_tlist to preprocess_targetlist.
HeapClose ==
    /\ pc = "close"
    /\ heldLocks' = heldLocks - 1
    /\ nClose' = nClose + 1
    /\ tlist' = "new"
    /\ pc' = after_expand(command_type)
    /\ UNCHANGED <<command_type, result_relation, parse_tlist, heap, lists,
                   rel, nOpen, tlistentry_used, attrno, consumed, err>>

\* UPDATE and DELETE: the ctid entry is appended.
AddCtid ==
    /\ pc = "ctid"
    /\ LET tle == ctid_tle(Len(lists[tlist]), result_relation)
           c == ctid_list(command_type, lists, tlist)
           a == lappend(c.lists, c.list, Len(heap) + 1)
       IN /\ heap' = Append(heap, tle)
          /\ lists' = a.lists
          /\ tlist' = a.list
    /\ pc' = "return"
    /\ UNCHANGED <<command_type, result_relation, parse_tlist, rel, heldLocks,
                   nOpen, nClose, tlistentry_used, attrno, consumed, err>>

\* return tlist
Return ==
    /\ pc = "return"
    /\ pc' = "done"
    /\ UNCHANGED <<command_type, result_relation, parse_tlist, heap, lists,
                   tlist, rel, heldLocks, nOpen, nClose, tlistentry_used,
                   attrno, consumed, err>>

Next ==
    \/ CheckResultRelation
    \/ HeapOpen
    \/ ExpandAttribute
    \/ CopyJunk
    \/ HeapClose
    \/ AddCtid
    \/ Return

Spec == Init /\ [][Next]_vars

\* ----------------------------------------------------- reading the state
numattrs == RelationGetNumberOfAttributes(rel)

\* The entries of the list preprocess_targetlist returns.
Result == [i \in 1..Len(lists[tlist]) |-> heap[lists[tlist][i]]]

\* The entries of new_tlist, the list expand_targetlist builds.
NewList == [i \in 1..Len(lists.new) |-> heap[lists.new[i]]]

Returned == pc = "done"

\* expand_targetlist was entered (the relation was opened).
Expanding == command_type \in {CMD_INSERT, CMD_UPDATE} /\ nOpen = 1

\* Both loops of expand_targetlist ran to their end.
Expanded == Expanding /\ pc \in {"close", "ctid", "return", "done"}

SrcIndexes == [i \in 1..Len(parse_tlist) |-> i]

Junk(seq) == SelectSeq(seq, LAMBDA e : e.resjunk)

NonJunk(seq) == SelectSeq(seq, LAMBDA e : ~e.resjunk)

\* The source entries that assign to the attribute named attname, in source
\* order.
Group(attname) ==
    SelectSeq(SrcIndexes,
              LAMBDA i : ~parse_tlist[i].resjunk
                         /\ parse_tlist[i].resname = attname)

AttNames == { rel.attrs[p].attname : p \in 1..numattrs }

IsArrayAssignment(expr) ==
    expr # NULL /\ expr[1].tag = "ArrayRef" /\ expr[1].refassgnexpr # NULL

\* The assignments of g cannot be merged into one.  The source entries are
\* single array assignments, so the innermost base of the expression merged
\* so far is the base of the first of them.
Conflicting(g) ==
    /\ Len(g) >= 2
    /\ \/ \E j \in DOMAIN g : ~IsArrayAssignment(parse_tlist[g[j]].expr)
       \/ \E j, k \in DOMAIN g :
            parse_tlist[g[j]].expr[1].refelemtype
              # parse_tlist[g[k]].expr[1].refelemtype
       \/ \E j \in DOMAIN g :
            parse_tlist[g[j]].expr[1].refexpr
              # parse_tlist[g[1]].expr[1].refexpr

Mergeable(g) == Len(g) >= 2 /\ ~Conflicting(g)

\* The nest of the first n assignments of g: the n-th around the nest of the
\* n - 1 before it.
RECURSIVE Nest(_, _)
Nest(g, n) ==
    IF n = 1 THEN parse_tlist[g[1]].expr
    ELSE <<[parse_tlist[g[n]].expr[1] EXCEPT !.refexpr = Nest(g, n - 1)]>>

StrictlyIncreasing(seq) ==
    \A i, j \in DOMAIN seq : i < j => seq[i] < seq[j]

\* ------------------------------------------------------------------ claims

\* C1 as claimed: after an INSERT or UPDATE call returns, the non-junk entries
\* of the result have the positions 1..N, N the number of attributes that are
\* not dropped, one entry per such attribute and named after it.
NonDropped == { p \in 1..numattrs : ~COLUMN_IS_DROPPED(rel.attrs[p]) }

C1_Claimed ==
    (Returned /\ Expanding) =>
        LET vis == NonJunk(Result)
            N == Cardinality(NonDropped)
        IN /\ Len(vis) = N
           /\ { vis[i].resno : i \in DOMAIN vis } = 1..N
           /\ \A p \in NonDropped :
                Cardinality({ i \in DOMAIN vis :
                                vis[i].resname = rel.attrs[p].attname }) = 1

\* C1 as amended: after an INSERT or UPDATE call returns, the non-junk entries
\* of the result are, in list order, one per attribute of the relation, dropped
\* or not: the p-th has position p and the name of attribute p.
C1_VisibleEntriesFollowAttributes ==
    (Returned /\ Expanding) =>
        LET vis == NonJunk(Result)
        IN /\ Len(vis) = numattrs
           /\ \A p \in 1..numattrs :
                /\ vis[p].resno = p
                /\ vis[p].resname = rel.attrs[p].attname
                /\ Result[p] = vis[p]

\* C1 witness: a call returned for a relation with a dropped attribute, and a
\* source entry was moved to an attribute whose number is not its resno.
C1_Witness ==
    /\ Returned /\ Expanding
    /\ numattrs = 2
    /\ NonDropped # 1..numattrs
    /\ \E i \in DOMAIN consumed :
         /\ Len(consumed[i]) = 1
         /\ consumed[i][1] >= 1
         /\ parse_tlist[i].resno # consumed[i][1]

\* C2: after an UPDATE or DELETE call returns, the last entry of the result is
\* the one appended entry: junk, named ctid, of type tid, its position the
\* length of the result, its expression a Var of the result relation's
\* self-item-pointer attribute; the entries before it are those of the list it
\* was appended to.  An INSERT or another command returns a list without it.
IsCtidEntry(e, resno) ==
    /\ e.resjunk
    /\ e.resname = "ctid"
    /\ e.restype = TIDOID
    /\ e.resno = resno
    /\ e.expr # NULL
    /\ e.expr[1].tag = "Var"
    /\ e.expr[1].varno = result_relation
    /\ e.expr[1].varattno = SelfItemPointerAttributeNumber
    /\ e.expr[1].type = TIDOID

C2_CtidAppendedLast ==
    Returned =>
        LET n == Len(Result)
            before == IF command_type = CMD_DELETE
                      THEN Len(parse_tlist)
                      ELSE numattrs + Len(Junk(parse_tlist))
        IN IF command_type \in {CMD_UPDATE, CMD_DELETE}
           THEN /\ n = before + 1
                /\ IsCtidEntry(Result[n], n)
                /\ \A i \in 1..(n - 1) : Result[i].resname # "ctid"
                /\ command_type = CMD_DELETE =>
                     \A i \in 1..(n - 1) : Result[i] = parse_tlist[i]
           ELSE /\ \A i \in 1..n : Result[i].resname # "ctid"
                /\ command_type = CMD_INSERT => n = before
                /\ command_type = CMD_SELECT => Result = parse_tlist

\* C2 witness: an UPDATE returned a list of two attributes, a junk entry of
\* the source and the ctid entry.
C2_Witness ==
    /\ Returned
    /\ command_type = CMD_UPDATE
    /\ numattrs = 2
    /\ Len(Junk(parse_tlist)) = 1
    /\ Len(Result) = 4

\* C3: in every state of a call, also one that ended in an error, the caller's
\* list holds the entries it held when it was passed, and each of them has the
\* position, name, junk flag and expression it had.
C3_CallerListUntouched ==
    /\ lists.orig = SrcIndexes
    /\ \A i \in 1..Len(parse_tlist) : heap[i] = parse_tlist[i]

\* C3 witness: a DELETE of a list of two entries returned a list of three.
C3_Witness ==
    /\ Returned
    /\ command_type = CMD_DELETE
    /\ Len(parse_tlist) = 2
    /\ Len(Result) = 3

Unmatched ==
    { i \in 1..Len(parse_tlist) :
        ~parse_tlist[i].resjunk /\ parse_tlist[i].resname \notin AttNames }

JunkPlaces(seq) == { i \in DOMAIN seq : seq[i].resjunk }

NonJunkPlaces(seq) == { i \in DOMAIN seq : ~seq[i].resjunk }

JunkLast(seq) ==
    /\ \A i \in NonJunkPlaces(seq), j \in JunkPlaces(seq) : i < j
    /\ \A i, j \in JunkPlaces(seq) : i < j => seq[i].resno < seq[j].resno

\* C7 as claimed: in the list returned for an INSERT, UPDATE or DELETE, every
\* junk entry comes after every entry that is not junk, and the positions of
\* the junk entries increase strictly.
C7_Claimed ==
    (Returned /\ command_type \in {CMD_INSERT, CMD_UPDATE, CMD_DELETE}) =>
        JunkLast(Result)

\* C7 as amended: in the list returned for an INSERT or UPDATE, every junk
\* entry comes after every entry that is not junk and the positions of the
\* junk entries increase strictly; a junk source entry is never matched to an
\* attribute, whatever its name, and the junk source entries follow the
\* attributes once each, in source order, renumbered from the number of
\* attributes plus one.  For a DELETE the source entries are returned as they
\* were passed, in their order, followed by the ctid entry at the position
\* that is the length of the list.
C7_JunkEntriesLast ==
    Returned =>
        /\ Expanding =>
             LET junk == Junk(parse_tlist)
             IN /\ JunkLast(Result)
                /\ \A i \in 1..Len(parse_tlist) :
                     parse_tlist[i].resjunk => consumed[i] = <<0>>
                /\ Len(Junk(Result))
                     = Len(junk) + (IF command_type = CMD_UPDATE THEN 1 ELSE 0)
                /\ \A j \in 1..Len(junk) :
                     Result[numattrs + j]
                       = [junk[j] EXCEPT !.resno = numattrs + j]
        /\ command_type = CMD_DELETE =>
             /\ Len(Result) = Len(parse_tlist) + 1
             /\ \A i \in 1..Len(parse_tlist) : Result[i] = parse_tlist[i]
             /\ Result[Len(Result)].resjunk
             /\ Result[Len(Result)].resno = Len(Result)

\* C7 witness: an UPDATE of a relation with an attribute a returned, and its
\* source list held two junk entries, one of them named a.
C7_Witness ==
    /\ Returned
    /\ command_type = CMD_UPDATE
    /\ numattrs >= 1
    /\ "a" \in AttNames
    /\ Len(Junk(parse_tlist)) = 2
    /\ \E i \in 1..Len(parse_tlist) :
         parse_tlist[i].resjunk /\ parse_tlist[i].resname = "a"

\* C8 as claimed: once expand_targetlist has opened the relation, the lock is
\* not held when control has left expand_targetlist, by a return or by an
\* error, and it was acquired once and released once.
C8_Claimed ==
    (nOpen >= 1 /\ pc \in {"error", "ctid", "return", "done"}) =>
        /\ heldLocks = 0
        /\ nOpen = 1
        /\ nClose = 1

\* C8 as amended: the lock is acquired once in an expansion.  When
\* expand_targetlist returns a list the lock was released once and is not
\* held.  When the expansion fails with MultipleAssignmentConflict,
\* UnexpectedJunkAssignment or DefaultTypeMismatch, control leaves
\* expand_targetlist by elog(ERROR) before heap_close: the lock was not
\* released and is still held.
C8_LockReleasedOnReturnOnly ==
    /\ nOpen <= 1
    /\ heldLocks = nOpen - nClose
    /\ (nOpen = 1 /\ pc \in {"ctid", "return", "done"}) =>
         (heldLocks = 0 /\ nClose = 1)
    /\ (nOpen = 1 /\ pc \in {"attrs", "close"}) =>
         (heldLocks = 1 /\ nClose = 0)
    /\ (nOpen = 1 /\ pc = "error") =>
         /\ heldLocks = 1
         /\ nClose = 0
         /\ err \in {"MultipleAssignmentConflict", "UnexpectedJunkAssignment",
                     "DefaultTypeMismatch"}
    /\ nOpen = 0 => heldLocks = 0

\* C8 witness: an UPDATE returned after its expansion.
C8_Witness ==
    /\ Returned
    /\ command_type = CMD_UPDATE
    /\ nOpen = 1
    /\ numattrs = 2

\* The attributes no non-junk source entry names.
Omitted == { p \in 1..numattrs : Group(rel.attrs[p].attname) = <<>> }

\* What build_column_default can return for attribute p.
ColumnDefaults(p) ==
    { build_column_default(rel, p, typlen, typbyval) :
        typlen \in UninitTyplen, typbyval \in UninitTypbyval }

IsColumnVar(expr, p) ==
    /\ expr # NULL
    /\ expr[1].tag = "Var"
    /\ expr[1].varno = result_relation
    /\ expr[1].varattno = p
    /\ expr[1].type = rel.attrs[p].atttypid
    /\ expr[1].typmod = rel.attrs[p].atttypmod

\* The entry made for an omitted attribute, apart from its expression.
IsAttributeEntry(e, p) ==
    /\ ~e.resjunk
    /\ e.resname = rel.attrs[p].attname
    /\ e.resno = p

DeclaredDefault(p) ==
    IF \E n \in DOMAIN rel.defval : rel.defval[n].adnum = p
    THEN <<rel.defval[CHOOSE n \in DOMAIN rel.defval :
                         rel.defval[n].adnum = p].adbin>>
    ELSE NULL

\* The expression with the column's type modifier applied.
WithTypmod(expr, p) ==
    IF rel.attrs[p].atttypmod < 0 \/ rel.attrs[p].atttypmod = expr[1].typmod
    THEN expr
    ELSE <<[NodeBase EXCEPT !.tag = "LengthCoerce",
                            !.type = rel.attrs[p].atttypid,
                            !.typmod = rel.attrs[p].atttypmod,
                            !.arg = expr]>>

\* The default C10 claims for attribute p, given that the declared default,
\* if there is one, can be coerced.
ClaimedDefault(p) ==
    LET att == rel.attrs[p]
        d == DeclaredDefault(p)
    IN IF d # NULL
       THEN WithTypmod(IF d[1].type = att.atttypid THEN d
                       ELSE CoerceTargetExpr(NULL, d, d[1].type, att.atttypid,
                                             att.atttypmod), p)
       ELSE IF att.attisset
       THEN WithTypmod(<<makeConst(att.atttypid, SizeofOid, 0, TRUE, TRUE,
                                   FALSE, FALSE)>>, p)
       ELSE IF get_typdefault(att.atttypid, att.atttypmod) # NULL
       THEN WithTypmod(get_typdefault(att.atttypid, att.atttypmod), p)
       ELSE WithTypmod(<<makeConst(att.atttypid,
                                   get_typlenbyval(att.atttypid).typlen, 0,
                                   TRUE,
                                   get_typlenbyval(att.atttypid).typbyval,
                                   FALSE, FALSE)>>, p)

\* C10: the expression an INSERT gets for an omitted column, one that is not
\* dropped, is the column's declared default, coerced if its type is not the column's; else, for a set
\* column, a NULL constant of the length of an Oid, passed by value; else the
\* default of the type; else a NULL constant of the column's type, with the
\* length and the by-value flag of that type; each with the column's type
\* modifier applied.  The call fails with DefaultTypeMismatch only when the
\* declared default cannot be coerced.
C10_Claimed ==
    (Expanding /\ command_type = CMD_INSERT) =>
        /\ \A p \in Omitted :
             (Len(lists.new) >= p /\ ~COLUMN_IS_DROPPED(rel.attrs[p])) =>
                 NewList[p].expr = ClaimedDefault(p)
        /\ (pc = "error" /\ err = "DefaultTypeMismatch") =>
             /\ attrno \in Omitted
             /\ DeclaredDefault(attrno) # NULL
             /\ ~can_coerce_type(DeclaredDefault(attrno)[1].type,
                                 rel.attrs[attrno].atttypid)

====
